---- MODULE Spec2Model ----
(***************************************************************************)
(* Model of app/crawler.py: crawl_job, its nested fetch coroutine, the     *)
(* RobotsCache and the scope helpers, together with the jobs/results rows  *)
(* of app/db.py that crawl_job writes.  Further specifications model       *)
(* in_scope, mode_map, mode_crawl and mode_crawl_stream on their own.      *)
(*                                                                         *)
(* asyncio runs one coroutine at a time; a coroutine runs without          *)
(* interruption from one suspension point (an await that really waits) to  *)
(* the next.  Every action below is one such uninterrupted stretch.        *)
(***************************************************************************)
EXTENDS Integers, Sequences, FiniteSets, TLC

VARIABLES scope_call, map_call, crawl_call, stream_call, spec, mainpc, q, seen, pages, sem, waiters, tasks, robotsCache,
          results, job, stats, cancel_flag, expired, fetchCount, robotsReq

vars == <<scope_call, map_call, crawl_call, stream_call, spec, mainpc, q, seen, pages, sem,
          waiters, tasks, robotsCache, results, job, stats, cancel_flag, expired, fetchCount,
          robotsReq>>

\* The variables of crawl_job, and those of the calls examined on their own.
crawl_vars == <<spec, mainpc, q, seen, pages, sem, waiters, tasks, robotsCache,
                results, job, stats, cancel_flag, expired, fetchCount, robotsReq>>

service_vars == <<scope_call, map_call, crawl_call, stream_call>>

(***************************************************************************)
(* The web the crawl runs against: URLs, their hosts, the anchors of each  *)
(* page as extract_links returns them, and each site's robots policy.      *)
(***************************************************************************)
URLs == {"https://a.test/", "https://a.test/x", "https://a.test/z", "https://b.test/y",
         "https://a.test/x#top"}

Hosts == {"a.test", "b.test"}

\* href.startswith("mailto:") or href.startswith("javascript:")
SkippedHrefs == {"mailto:admin@a.test", "javascript:void(0)"}

\* urlparse(u).netloc
netloc(u) ==
    IF u = "https://b.test/y" THEN "b.test"
    ELSE IF u \in SkippedHrefs THEN ""
    ELSE "a.test"

\* urllib.parse.urldefrag: the URL without its fragment.
urldefrag(u) == IF u = "https://a.test/x#top" THEN "https://a.test/x" ELSE u

\* The href of every anchor of the page served for u, joined with the page's
\* URL by urljoin.  A server never sees the fragment of a request.
hrefs(u) ==
    CASE urldefrag(u) = "https://a.test/"  ->
            <<"https://a.test/x#top", "mailto:admin@a.test", "https://b.test/y">>
      [] urldefrag(u) = "https://a.test/x" -> <<"https://a.test/z", "https://a.test/">>
      [] urldefrag(u) = "https://a.test/z" -> <<"https://a.test/x", "https://a.test/x#top">>
      [] OTHER                             -> <<"javascript:void(0)", "https://a.test/z">>

RECURSIVE Defragged(_)
Defragged(links) ==
    IF links = <<>> THEN <<>>
    ELSE IF Head(links) \in SkippedHrefs THEN Defragged(Tail(links))
    ELSE <<urldefrag(Head(links))>> \o Defragged(Tail(links))

extract_links(u) == Defragged(hrefs(u))

\* URLs the site's robots.txt disallows for the crawler's user agent.
RobotsDisallowed == {"https://a.test/z"}

(***************************************************************************)
(* Bounds of the job specifications the model draws.                       *)
(***************************************************************************)
MaxConcurrency == 2
MaxPagesBound == 2
MaxDepthBound == 1

DefaultConcurrency == 2

\* Longest allow list and longest deny list handed to in_scope on its own.
MaxRules == 2

\* A limit is None or a number: the empty set or a singleton.
None == {}

\* A compiled pattern is modelled by the set of URLs its search() matches.
MatchAll == URLs
MatchX == {"https://a.test/x"}

MatchA == {"https://a.test/", "https://a.test/x", "https://a.test/z", "https://a.test/x#top"}
MatchNothing == {}

NoRules == [allow |-> <<>>, deny |-> <<>>]

BaseSpec ==
    [seeds |-> <<"https://a.test/">>, rules |-> NoRules,
     maxDepth |-> None, maxPages |-> None, maxDuration |-> None,
     concurrency |-> 2, delayMs |-> 0, respectRobots |-> FALSE,
     sameDomainOnly |-> TRUE]

\* seeds=["https://a.test/"], maxDepth=1, maxPages=10, concurrency=2, no rules.
ScenarioSpec == [BaseSpec EXCEPT !.maxDepth = {1}, !.maxPages = {10}]

TwoSeeds == <<"https://a.test/", "https://a.test/x">>

JobSpecs ==
    {ScenarioSpec}
    \cup {[BaseSpec EXCEPT !.concurrency = c, !.maxDepth = d] :
            c \in 0..MaxConcurrency, d \in {None} \cup {{n} : n \in 0..MaxDepthBound}}
    \cup {[BaseSpec EXCEPT !.seeds = TwoSeeds, !.concurrency = c, !.maxPages = {p}] :
            c \in 1..MaxConcurrency, p \in 1..MaxPagesBound}
    \cup {[BaseSpec EXCEPT !.seeds = TwoSeeds, !.concurrency = c,
                           !.respectRobots = TRUE, !.delayMs = d] :
            c \in 1..MaxConcurrency, d \in {0, 1}}
    \cup {[BaseSpec EXCEPT !.seeds = <<"https://a.test/", "https://b.test/y">>,
                           !.sameDomainOnly = FALSE, !.maxDuration = {1}]}
    \cup {[BaseSpec EXCEPT !.seeds = <<"https://a.test/x#top">>, !.concurrency = 1]}
    \cup {[BaseSpec EXCEPT !.seeds = <<"https://a.test/x", "https://a.test/z">>,
                           !.concurrency = 1, !.respectRobots = TRUE, !.maxDepth = {1}]}
    \cup {[BaseSpec EXCEPT !.seeds = <<"https://a.test/", "https://a.test/x", "https://a.test/z">>,
                           !.concurrency = 1, !.maxDepth = {0}]}
    \cup {[BaseSpec EXCEPT !.rules = [allow |-> <<>>, deny |-> <<MatchAll>>]],
          [BaseSpec EXCEPT !.seeds = TwoSeeds,
                           !.rules = [allow |-> <<MatchX>>, deny |-> <<>>]]}

(***************************************************************************)
(* Configuration read at the top of crawl_job.                             *)
(***************************************************************************)
concurrency == IF spec.concurrency = 0 THEN DefaultConcurrency ELSE spec.concurrency

seed_hosts == {netloc(spec.seeds[i]) : i \in 1..Len(spec.seeds)}

Range(s) == {s[i] : i \in 1..Len(s)}

\* Faulty variant: an allow match is accepted before the deny patterns are tried.
in_scope_allow_first(url, allow, deny) ==
    IF \E a \in Range(allow) : url \in a THEN TRUE
    ELSE IF \E d \in Range(deny) : url \in d THEN FALSE
    ELSE allow = <<>>

\* Faulty variant: the deny patterns are not consulted.
in_scope_ignores_deny(url, allow, deny) ==
    IF allow = <<>> THEN TRUE
    ELSE \E a \in Range(allow) : url \in a

in_scope(url, allow, deny) ==
    IF \E d \in Range(deny) : url \in d THEN FALSE
    ELSE IF allow = <<>> THEN TRUE
    ELSE \E a \in Range(allow) : url \in a

\* Faulty variant: every host counts as a seed host.
same_domain_any(url, hosts) == TRUE

same_domain(url, hosts) == netloc(url) \in hosts

\* Faulty variant: the policy parsed after a failed request allows nothing.
is_allowed_strict(policy, url) == policy # "allowall" /\ url \notin RobotsDisallowed

\* RobotExclusionRulesParser.is_allowed for a cached policy: "site" is the
\* site's robots.txt, "allowall" the empty policy parsed after a failure.
is_allowed(policy, url) == policy = "allowall" \/ url \notin RobotsDisallowed


(***************************************************************************)
(* State.                                                                  *)
(*   scope_call   one call of in_scope taken on its own: its arguments and *)
(*                what it returned                                         *)
(*   map_call, crawl_call, stream_call   one request served by mode_map,   *)
(*                mode_crawl, mode_crawl_stream: the request, the locals   *)
(*                of the coroutine and where it is                         *)
(*   spec         the job specification (never changes)                    *)
(*   mainpc       where crawl_job itself is                                *)
(*   q, seen, pages   the frontier deque, the seen set, the page counter   *)
(*   sem, waiters the semaphore's free slots and its FIFO of waiting tasks *)
(*   tasks        one record per task created by the dispatch loop: its    *)
(*                arguments, where it is, and whether it has ("held"), has *)
(*                given back ("released") or never had a semaphore slot    *)
(*   robotsCache  RobotsCache._cache: host -> "none" | "site" | "allowall" *)
(*   results, job the rows of the results table and the job's row          *)
(*   stats        the stats dict built at the end of crawl_job             *)
(*   cancel_flag  the asyncio.Event shared with the caller                 *)
(*   expired      time.time() - start > max_duration                       *)
(*   fetchCount, robotsReq   calls made to crawler.arun per URL and to     *)
(*                session.get per host                                     *)
(***************************************************************************)
NoStats == [pages |-> -1, seen |-> -1]

\* No call of in_scope is being examined on its own.
NoScopeCall == [url |-> "", allow |-> <<>>, deny |-> <<>>, out |-> "none"]

\* No request to mode_map, mode_crawl or mode_crawl_stream is being served.
NoCall == [pc |-> "none"]

Init ==
    /\ scope_call = NoScopeCall
    /\ map_call = NoCall
    /\ crawl_call = NoCall
    /\ stream_call = NoCall
    /\ spec \in JobSpecs
    /\ mainpc = "setup"
    /\ q = <<>>
    /\ seen = {}
    /\ pages = 0
    /\ sem = 0
    /\ waiters = <<>>
    /\ tasks = <<>>
    /\ robotsCache = [h \in Hosts |-> "none"]
    /\ results = <<>>
    /\ job = [status |-> "queued", stats_json |-> NoStats]
    /\ stats = NoStats
    /\ cancel_flag = FALSE
    /\ expired = FALSE
    /\ fetchCount = [u \in URLs |-> 0]
    /\ robotsReq = [h \in Hosts |-> 0]

Unfinished == {t \in 1..Len(tasks) : tasks[t].pc # "done"}

\* Tasks between sem.acquire() returning and sem.release().
Holders == {t \in 1..Len(tasks) : tasks[t].slot = "held"}

\* The part of the state a fetch task works on while it runs.
Local == [tasks |-> tasks, sem |-> sem, waiters |-> waiters,
          fetchCount |-> fetchCount, robotsReq |-> robotsReq]

Commit(st) ==
    /\ tasks' = st.tasks
    /\ sem' = st.sem
    /\ waiters' = st.waiters
    /\ fetchCount' = st.fetchCount
    /\ robotsReq' = st.robotsReq

(***************************************************************************)
(* asyncio.Semaphore.  release() hands the slot to the longest waiting     *)
(* task, which resumes in a later step; acquire() takes a free slot        *)
(* without suspending.                                                     *)
(***************************************************************************)
\* Faulty variant: release() is missed.
sem_release_missed(st) == st

sem_release(st) ==
    IF st.waiters = <<>>
    THEN [st EXCEPT !.sem = @ + 1]
    ELSE [st EXCEPT !.waiters = Tail(@),
                    !.tasks[Head(st.waiters)].pc = "acquired",
                    !.tasks[Head(st.waiters)].slot = "held"]

\* The finally clause of fetch followed by the end of the coroutine.
Finally(st, t) ==
    sem_release([st EXCEPT !.tasks[t].pc = "done", !.tasks[t].slot = "released"])

\* result = await crawler.arun(url=url, bypass_cache=True)
arun(st, t) ==
    [st EXCEPT !.tasks[t].pc = "fetching", !.fetchCount[st.tasks[t].url] = @ + 1]

\* if delay_ms: await asyncio.sleep(...), then the fetch.
AfterRobots(st, t) ==
    IF spec.delayMs # 0 THEN [st EXCEPT !.tasks[t].pc = "sleeping"] ELSE arun(st, t)

\* Faulty variant: a robots denial returns without running the finally clause.
RobotsDecisionLeak(st, t, cache) ==
    IF is_allowed(cache[netloc(st.tasks[t].url)], st.tasks[t].url)
    THEN AfterRobots(st, t)
    ELSE [st EXCEPT !.tasks[t].pc = "done"]

\* Faulty variant: the answer of the robots policy is not acted upon.
RobotsDecisionIgnored(st, t, cache) == AfterRobots(st, t)

\* The robots check once a policy for the host is cached.
RobotsDecision(st, t, cache) ==
    IF is_allowed(cache[netloc(st.tasks[t].url)], st.tasks[t].url)
    THEN AfterRobots(st, t)
    ELSE Finally(st, t)

\* The body of the try block up to its first suspension.
AfterAcquire(st, t, cache) ==
    IF ~spec.respectRobots THEN AfterRobots(st, t)
    ELSE IF cache[netloc(st.tasks[t].url)] = "none"
         THEN [st EXCEPT !.tasks[t].pc = "robots",
                         !.robotsReq[netloc(st.tasks[t].url)] = @ + 1]
         ELSE RobotsDecision(st, t, cache)

\* Faulty variant: acquire never waits.
sem_acquire_nowait(st, t, cache) ==
    AfterAcquire([st EXCEPT !.tasks[t].slot = "held"], t, cache)

sem_acquire(st, t, cache) ==
    IF st.sem > 0 /\ st.waiters = <<>>
    THEN AfterAcquire([st EXCEPT !.sem = @ - 1, !.tasks[t].slot = "held"], t, cache)
    ELSE [st EXCEPT !.waiters = Append(@, t), !.tasks[t].pc = "waiting"]

\* Faulty variant: the URL is not marked at admission.
MarkSeenLost(s, url) == s

\* seen.add(url)
MarkSeen(s, url) == s \cup {url}

\* Faulty variant: the checks without the max_depth test.
AdmissibleIgnoringDepth(url, depth) ==
    /\ ~cancel_flag
    /\ url \notin seen
    /\ \A p \in spec.maxPages : ~(pages >= p)
    /\ ~(spec.maxDuration # None /\ expired)
    /\ in_scope(url, spec.rules.allow, spec.rules.deny)
    /\ (spec.sameDomainOnly => same_domain(url, seed_hosts))

\* Faulty variant: the checks without the cancel_flag test.
AdmissibleIgnoringCancel(url, depth) ==
    /\ url \notin seen
    /\ \A d \in spec.maxDepth : ~(depth > d)
    /\ \A p \in spec.maxPages : ~(pages >= p)
    /\ ~(spec.maxDuration # None /\ expired)
    /\ in_scope(url, spec.rules.allow, spec.rules.deny)
    /\ (spec.sameDomainOnly => same_domain(url, seed_hosts))

\* The checks at the top of fetch; TRUE when the task goes on to seen.add.
Admissible(url, depth) ==
    /\ ~cancel_flag
    /\ url \notin seen
    /\ \A d \in spec.maxDepth : ~(depth > d)
    /\ \A p \in spec.maxPages : ~(pages >= p)
    /\ ~(spec.maxDuration # None /\ expired)
    /\ in_scope(url, spec.rules.allow, spec.rules.deny)
    /\ (spec.sameDomainOnly => same_domain(url, seed_hosts))

SuccessResult(url, depth) ==
    [url |-> url, status_code |-> 200, depth |-> depth, html |-> "html",
     links |-> extract_links(url), error |-> "null"]

\* Faulty variant: the failure row keeps the fields of a success row.
FailureResultKeepsContent(url, depth) ==
    [url |-> url, status_code |-> 200, depth |-> depth, html |-> "html",
     links |-> extract_links(url), error |-> "error"]

FailureResult(url, depth) ==
    [url |-> url, status_code |-> 0, depth |-> depth, html |-> "null",
     links |-> <<>>, error |-> "error"]

\* Faulty variant: a link is queued at its parent's depth.
ChildDepthSame(depth) == depth

\* The depth given to a link found on a page of this depth.
ChildDepth(depth) == depth + 1

\* for link in links: if link not in seen: q.append((link, depth + 1))
RECURSIVE Enqueue(_, _, _)
Enqueue(queue, links, depth) ==
    IF links = <<>> THEN queue
    ELSE Enqueue(IF Head(links) \notin seen
                 THEN Append(queue, [url |-> Head(links), depth |-> depth])
                 ELSE queue,
                 Tail(links), depth)

(***************************************************************************)
(* crawl_job: setup.                                                       *)
(***************************************************************************)
\* The session and the AsyncWebCrawler are entered; q, seen, pages, sem set.
Setup ==
    /\ mainpc = "setup"
    /\ mainpc' = "loop"
    /\ q' = [i \in 1..Len(spec.seeds) |-> [url |-> spec.seeds[i], depth |-> 0]]
    /\ sem' = concurrency
    /\ UNCHANGED <<service_vars, spec, seen, pages, waiters, tasks, robotsCache, results, job,
                   stats, cancel_flag, expired, fetchCount, robotsReq>>

\* Entering the AsyncWebCrawler raises: crawl_job ends with the exception.
SetupFails ==
    /\ mainpc = "setup"
    /\ mainpc' = "raised"
    /\ UNCHANGED <<service_vars, spec, q, seen, pages, sem, waiters, tasks, robotsCache, results,
                   job, stats, cancel_flag, expired, fetchCount, robotsReq>>

(***************************************************************************)
(* crawl_job: the dispatch loop.                                           *)
(***************************************************************************)
LoopBreaks ==
    \/ q = <<>>
    \/ cancel_flag
    \/ \E p \in spec.maxPages : pages >= p
    \/ (spec.maxDuration # None /\ expired)

\* One iteration: the checks, popleft, create_task, up to the sleep.
Dispatch ==
    /\ mainpc = "loop"
    /\ ~LoopBreaks
    /\ tasks' = Append(tasks, [url |-> Head(q).url, depth |-> Head(q).depth,
                               pc |-> "created", slot |-> "none"])
    /\ q' = Tail(q)
    /\ mainpc' = IF Cardinality(Unfinished) + 1 >= concurrency * 2
                 THEN "sleep_long" ELSE "sleep_short"
    /\ UNCHANGED <<service_vars, spec, seen, pages, sem, waiters, robotsCache, results, job,
                   stats, cancel_flag, expired, fetchCount, robotsReq>>

\* asyncio.sleep returns.  A task made by create_task runs its first step
\* before any timer set after it fires.
WakeUp ==
    /\ mainpc \in {"sleep_long", "sleep_short"}
    /\ \A t \in 1..Len(tasks) : tasks[t].pc # "created"
    /\ mainpc' = "loop"
    /\ UNCHANGED <<service_vars, spec, q, seen, pages, sem, waiters, tasks, robotsCache, results,
                   job, stats, cancel_flag, expired, fetchCount, robotsReq>>

\* Faulty variant: the loop ends without awaiting the unfinished tasks.
LoopExitNoGather ==
    /\ mainpc = "loop"
    /\ LoopBreaks
    /\ mainpc' = "closing"
    /\ UNCHANGED <<service_vars, spec, q, seen, pages, sem, waiters, tasks, robotsCache, results,
                   job, stats, cancel_flag, expired, fetchCount, robotsReq>>

\* The loop ends; if tasks: await asyncio.gather(*tasks).
LoopExit ==
    /\ mainpc = "loop"
    /\ LoopBreaks
    /\ mainpc' = IF Unfinished # {} THEN "gather" ELSE "closing"
    /\ UNCHANGED <<service_vars, spec, q, seen, pages, sem, waiters, tasks, robotsCache, results,
                   job, stats, cancel_flag, expired, fetchCount, robotsReq>>

GatherReturns ==
    /\ mainpc = "gather"
    /\ Unfinished = {}
    /\ mainpc' = "closing"
    /\ UNCHANGED <<service_vars, spec, q, seen, pages, sem, waiters, tasks, robotsCache, results,
                   job, stats, cancel_flag, expired, fetchCount, robotsReq>>

\* Both async-with blocks are left, stats is built, update_job is called.
BuildStats ==
    /\ mainpc = "closing"
    /\ stats' = [pages |-> pages, seen |-> Cardinality(seen)]
    /\ mainpc' = "updating"
    /\ UNCHANGED <<service_vars, spec, q, seen, pages, sem, waiters, tasks, robotsCache, results,
                   job, cancel_flag, expired, fetchCount, robotsReq>>

\* db.update_job(job_id, stats_json=str(stats)) commits.
update_job ==
    /\ mainpc = "updating"
    /\ job' = [job EXCEPT !.stats_json = stats]
    /\ mainpc' = "done"
    /\ UNCHANGED <<service_vars, spec, q, seen, pages, sem, waiters, tasks, robotsCache, results,
                   stats, cancel_flag, expired, fetchCount, robotsReq>>

(***************************************************************************)
(* fetch(url, depth): one action per stretch between suspension points.    *)
(***************************************************************************)
\* First step of a task: the checks, seen.add and sem.acquire.  A rejected
\* task returns before the try block and releases nothing.
StartTask(t) ==
    /\ tasks[t].pc = "created"
    /\ IF Admissible(tasks[t].url, tasks[t].depth)
       THEN /\ seen' = MarkSeen(seen, tasks[t].url)
            /\ Commit(sem_acquire(Local, t, robotsCache))
       ELSE /\ seen' = seen
            /\ Commit([Local EXCEPT !.tasks[t].pc = "done"])
    /\ UNCHANGED <<service_vars, spec, mainpc, q, pages, robotsCache, results, job, stats,
                   cancel_flag, expired>>

\* A task that waited in sem.acquire() resumes with the slot it was handed.
Resume(t) ==
    /\ tasks[t].pc = "acquired"
    /\ Commit(AfterAcquire(Local, t, robotsCache))
    /\ UNCHANGED <<service_vars, spec, mainpc, q, seen, pages, robotsCache, results, job, stats,
                   cancel_flag, expired>>

\* RobotsCache.allowed: the robots.txt request returns ("site") or fails
\* ("allowall"); the policy is cached and the URL is checked against it.
RobotsReturns(t, policy) ==
    /\ tasks[t].pc = "robots"
    /\ robotsCache' = [robotsCache EXCEPT ![netloc(tasks[t].url)] = policy]
    /\ Commit(RobotsDecision(Local, t, robotsCache'))
    /\ UNCHANGED <<service_vars, spec, mainpc, q, seen, pages, results, job, stats,
                   cancel_flag, expired>>

\* asyncio.sleep(delay_ms / 1000.0) returns.
DelayReturns(t) ==
    /\ tasks[t].pc = "sleeping"
    /\ Commit(arun(Local, t))
    /\ UNCHANGED <<service_vars, spec, mainpc, q, seen, pages, robotsCache, results, job, stats,
                   cancel_flag, expired>>

\* crawler.arun returns a successful result and the page is processed.
FetchSucceeds(t) ==
    /\ tasks[t].pc = "fetching"
    /\ Commit([Local EXCEPT !.tasks[t].pc = "insert_ok"])
    /\ UNCHANGED <<service_vars, spec, mainpc, q, seen, pages, robotsCache, results, job, stats,
                   cancel_flag, expired>>

\* crawler.arun raises or reports failure, or processing the page raises.
FetchFails(t) ==
    /\ tasks[t].pc = "fetching"
    /\ Commit([Local EXCEPT !.tasks[t].pc = "insert_fail"])
    /\ UNCHANGED <<service_vars, spec, mainpc, q, seen, pages, robotsCache, results, job, stats,
                   cancel_flag, expired>>

\* db.insert_result commits the row.
insert_result(t) ==
    /\ tasks[t].pc \in {"insert_ok", "insert_fail"}
    /\ results' = Append(results,
                         IF tasks[t].pc = "insert_ok"
                         THEN SuccessResult(tasks[t].url, tasks[t].depth)
                         ELSE FailureResult(tasks[t].url, tasks[t].depth))
    /\ Commit([Local EXCEPT !.tasks[t].pc =
                  IF tasks[t].pc = "insert_ok" THEN "stored_ok" ELSE "stored_fail"])
    /\ UNCHANGED <<service_vars, spec, mainpc, q, seen, pages, robotsCache, job, stats,
                   cancel_flag, expired>>

\* Faulty variant: an exception after the success row reaches the except block.
PageDoneRaises(t) ==
    /\ tasks[t].pc = "stored_ok"
    /\ Commit([Local EXCEPT !.tasks[t].pc = "insert_fail"])
    /\ UNCHANGED <<service_vars, spec, mainpc, q, seen, pages, robotsCache, results, job, stats,
                   cancel_flag, expired>>

\* After the success row: pages += 1, the links are queued, the slot released.
PageDone(t) ==
    /\ tasks[t].pc = "stored_ok"
    /\ pages' = pages + 1
    /\ q' = Enqueue(q, extract_links(tasks[t].url), ChildDepth(tasks[t].depth))
    /\ Commit(Finally(Local, t))
    /\ UNCHANGED <<service_vars, spec, mainpc, seen, robotsCache, results, job, stats,
                   cancel_flag, expired>>

\* Faulty variant: a failure is counted as a page.
FailureDoneCounted(t) ==
    /\ tasks[t].pc = "stored_fail"
    /\ pages' = pages + 1
    /\ Commit(Finally(Local, t))
    /\ UNCHANGED <<service_vars, spec, mainpc, q, seen, robotsCache, results, job, stats,
                   cancel_flag, expired>>

\* After the failure row: the except block ends, the slot is released.
FailureDone(t) ==
    /\ tasks[t].pc = "stored_fail"
    /\ Commit(Finally(Local, t))
    /\ UNCHANGED <<service_vars, spec, mainpc, q, seen, pages, robotsCache, results, job, stats,
                   cancel_flag, expired>>

(***************************************************************************)
(* The environment: the caller sets cancel_flag; time passes max_duration. *)
(***************************************************************************)
SetCancel ==
    /\ ~cancel_flag
    /\ mainpc \notin {"done", "raised"}
    /\ cancel_flag' = TRUE
    /\ UNCHANGED <<service_vars, spec, mainpc, q, seen, pages, sem, waiters, tasks, robotsCache,
                   results, job, stats, expired, fetchCount, robotsReq>>

Expire ==
    /\ spec.maxDuration # None
    /\ ~expired
    /\ mainpc \in {"loop", "sleep_long", "sleep_short", "gather"}
    /\ expired' = TRUE
    /\ UNCHANGED <<service_vars, spec, mainpc, q, seen, pages, sem, waiters, tasks, robotsCache,
                   results, job, stats, cancel_flag, fetchCount, robotsReq>>

Next ==
    \/ Setup
    \/ SetupFails
    \/ Dispatch
    \/ WakeUp
    \/ LoopExit
    \/ GatherReturns
    \/ BuildStats
    \/ update_job
    \/ \E t \in 1..Len(tasks) : StartTask(t)
    \/ \E t \in 1..Len(tasks) : Resume(t)
    \/ \E t \in 1..Len(tasks), policy \in {"site", "allowall"} : RobotsReturns(t, policy)
    \/ \E t \in 1..Len(tasks) : DelayReturns(t)
    \/ \E t \in 1..Len(tasks) : FetchSucceeds(t)
    \/ \E t \in 1..Len(tasks) : FetchFails(t)
    \/ \E t \in 1..Len(tasks) : insert_result(t)
    \/ \E t \in 1..Len(tasks) : PageDone(t)
    \/ \E t \in 1..Len(tasks) : FailureDone(t)
    \/ SetCancel
    \/ Expire

Spec == Init /\ [][Next]_vars

(***************************************************************************)
(* The asyncio event loop runs every callback that is ready, and the fetch *)
(* collaborator, the robots request, the delay and the results store       *)
(* return: no step of crawl_job or of a task stays enabled forever without *)
(* being taken.  The caller (SetCancel) and the clock (Expire) owe nothing.*)
(***************************************************************************)
Fairness ==
    /\ WF_vars(Setup)
    /\ WF_vars(Dispatch)
    /\ WF_vars(WakeUp)
    /\ WF_vars(LoopExit)
    /\ WF_vars(GatherReturns)
    /\ WF_vars(BuildStats)
    /\ WF_vars(update_job)
    /\ WF_vars(\E t \in 1..Len(tasks) : StartTask(t))
    /\ WF_vars(\E t \in 1..Len(tasks) : Resume(t))
    /\ WF_vars(\E t \in 1..Len(tasks), policy \in {"site", "allowall"} :
                  RobotsReturns(t, policy))
    /\ WF_vars(\E t \in 1..Len(tasks) : DelayReturns(t))
    /\ WF_vars(\E t \in 1..Len(tasks) : FetchSucceeds(t) \/ FetchFails(t))
    /\ WF_vars(\E t \in 1..Len(tasks) : insert_result(t))
    /\ WF_vars(\E t \in 1..Len(tasks) : PageDone(t))
    /\ WF_vars(\E t \in 1..Len(tasks) : FailureDone(t))

SpecFair == Spec /\ Fairness

TypeOK ==
    /\ spec \in JobSpecs
    /\ pages \in Nat
    /\ sem \in 0..concurrency
    /\ seen \subseteq URLs

(***************************************************************************)
(* Properties of crawl_job.                                                *)
(***************************************************************************)
TaskIds == 1..Len(tasks)

Started == mainpc \notin {"setup", "raised"}

\* C1: within one job crawler.arun is invoked at most once per distinct URL,
\* whatever the interleaving of the fetch tasks.
C1_FetchedAtMostOnce == \A u \in URLs : fetchCount[u] <= 1

\* Two tasks were created for the same URL, both have ended, one fetched it.
C1_Witness ==
    \E t1, t2 \in TaskIds :
        /\ t1 # t2
        /\ tasks[t1].url = tasks[t2].url
        /\ tasks[t1].pc = "done" /\ tasks[t2].pc = "done"
        /\ fetchCount[tasks[t1].url] = 1

\* C2: at most N = concurrency tasks are between slot acquisition and slot
\* release, every task inside crawler.arun holds a slot, so at most N
\* fetches are in flight.
C2_BoundedInFlight ==
    /\ Cardinality(Holders) <= concurrency
    /\ \A t \in TaskIds :
         tasks[t].pc \in {"robots", "sleeping", "fetching", "insert_ok",
                          "insert_fail", "stored_ok", "stored_fail"}
            => tasks[t].slot = "held"
    /\ Cardinality({t \in TaskIds : tasks[t].pc = "fetching"}) <= concurrency

\* All N slots are taken by fetches in flight and a further task waits.
C2_Witness ==
    /\ Cardinality({t \in TaskIds : tasks[t].pc = "fetching"}) = concurrency
    /\ waiters # <<>>

\* C3: every acquired slot is released exactly once on every exit path, a
\* task rejected before acquiring releases nothing, and when all tasks have
\* finished the semaphore has N free slots again.
C3_SlotsReleased ==
    Started =>
        /\ sem + Cardinality(Holders) = concurrency
        /\ \A t \in TaskIds :
             /\ tasks[t].pc = "done" => tasks[t].slot # "held"
             /\ tasks[t].pc \in {"created", "waiting"} => tasks[t].slot = "none"
             /\ (tasks[t].pc = "done" /\ tasks[t].url \notin seen)
                   => tasks[t].slot = "none"
        /\ (Unfinished = {} => sem = concurrency)

\* All tasks have ended: one after a robots denial, one after a success row,
\* one rejected before acquiring.
C3_Witness ==
    /\ mainpc = "done"
    /\ sem = concurrency
    /\ \E t \in TaskIds :
         /\ tasks[t].slot = "released"
         /\ fetchCount[tasks[t].url] = 0
    /\ \E t \in TaskIds : tasks[t].slot = "none"
    /\ \E i \in 1..Len(results) : results[i].status_code = 200

\* C4 (as claimed): with maxPages = P the number of rows persisted, success
\* and failure together, never exceeds P.
C4_Claim == \A p \in spec.maxPages : Len(results) <= p

\* C5 (as claimed): with maxPages set, pages never exceeds maxPages.
C5_Claim == \A p \in spec.maxPages : pages <= p

Last(s) == s[Len(s)]

\* C6: when the fetch fails for an admitted URL the task persists one
\* failure row for it (status 0, content null, no links, an error text),
\* ends normally, and leaves pages, the frontier, the dispatch loop and the
\* other tasks as they were.
C6_FailureRecorded ==
    [][\A t \in TaskIds :
         (tasks[t].pc \in {"insert_fail", "stored_fail"} /\ tasks'[t].pc # tasks[t].pc)
            => /\ pages' = pages
               /\ q' = q
               /\ mainpc' = mainpc
               /\ Len(tasks') = Len(tasks)
               /\ \A o \in TaskIds \ {t} :
                     \/ tasks'[o] = tasks[o]
                     \/ tasks[o].pc = "waiting" /\ tasks'[o].pc = "acquired"
               /\ tasks[t].pc = "insert_fail" =>
                     /\ tasks'[t].pc = "stored_fail"
                     /\ Len(results') = Len(results) + 1
                     /\ SubSeq(results', 1, Len(results)) = results
                     /\ Last(results').url = tasks[t].url
                     /\ Last(results').status_code = 0
                     /\ Last(results').html = "null"
                     /\ Last(results').links = <<>>
                     /\ Last(results').error # "null"
               /\ tasks[t].pc = "stored_fail" =>
                     /\ tasks'[t].pc = "done"
                     /\ results' = results
      ]_vars

\* A failure row is stored, its task has ended, and another URL fetched
\* alongside it got its success row afterwards.
C6_Witness ==
    \E i, j \in 1..Len(results) :
        /\ i < j
        /\ results[i].status_code = 0
        /\ results[j].status_code = 200
        /\ \E t \in TaskIds : tasks[t].url = results[i].url /\ tasks[t].pc = "done"
        /\ mainpc = "done"

\* An entry that fetch would admit if it were dispatched now.
Fetchable(e) ==
    /\ e.url \notin seen
    /\ \A d \in spec.maxDepth : ~(e.depth > d)
    /\ in_scope(e.url, spec.rules.allow, spec.rules.deny)
    /\ (spec.sameDomainOnly => same_domain(e.url, seed_hosts))

\* C7 (as claimed): when no limit and no cancellation triggers, crawl_job
\* ends only after every discovered link that is unseen, in scope,
\* same-domain and within maxDepth has been dispatched and fetched.
C7_Claim ==
    (mainpc = "done" /\ ~cancel_flag /\ spec.maxPages = None /\ spec.maxDuration = None)
        => \A i \in 1..Len(q) : ~Fetchable(q[i])

\* C8 (as claimed): in the scenario (seed https://a.test/, maxDepth 1,
\* maxPages 10, concurrency 2, same domain only) every run without
\* cancellation and without fetch failures ends with exactly the rows for
\* "/" at depth 0 and "/x" at depth 1.
C8_Claim ==
    (spec = ScenarioSpec /\ mainpc = "done" /\ ~cancel_flag
        /\ \A i \in 1..Len(results) : results[i].status_code = 200)
        => /\ Len(results) = 2
           /\ {<<results[i].url, results[i].depth>> : i \in 1..Len(results)}
                 = {<<"https://a.test/", 0>>, <<"https://a.test/x", 1>>}

\* C9: once cancel_flag is set the dispatch loop creates no further task
\* and no task adds a URL to seen; tasks admitted before are not aborted:
\* crawl_job goes past gather only when every task has run to its end.
C9_CancelStopsAdmission ==
    [][/\ cancel_flag => (Len(tasks') = Len(tasks) /\ seen' = seen)
       /\ \A t \in TaskIds :
            (cancel_flag /\ tasks[t].slot = "held" /\ tasks'[t].pc = "done")
               => tasks[t].pc \in {"acquired", "robots", "stored_ok", "stored_fail"}
       /\ mainpc' \in {"closing", "updating", "done"} => Unfinished' = {}
      ]_vars

\* The loop has stopped on the flag with entries left in the frontier while
\* an admitted fetch is still in flight and awaited.
C9_Witness ==
    /\ cancel_flag
    /\ spec.maxPages = None /\ spec.maxDuration = None
    /\ mainpc = "gather"
    /\ q # <<>>
    /\ \E t \in TaskIds : tasks[t].pc = "fetching"

\* C10 (as claimed): the job's status is running while crawl_job runs its
\* loop, and ends as cancelled or completed.
C10_Claim ==
    /\ mainpc \in {"loop", "sleep_long", "sleep_short", "gather", "closing", "updating"}
          => job.status = "running"
    /\ mainpc = "done" => job.status \in {"completed", "cancelled"}
    /\ (mainpc = "done" /\ ~cancel_flag) => job.status = "completed"

\* C11: whenever crawl_job ends (frontier drained, limit reached or
\* cancellation) the stats {pages, seen} are written to the job's row exactly
\* once, by update_job, and only when no task is pending or in flight.
C11_StatsOnceAfterJoin ==
    [][/\ job' # job =>
            /\ mainpc = "updating" /\ mainpc' = "done"
            /\ Unfinished = {}
            /\ job.stats_json = NoStats
            /\ job'.stats_json = [pages |-> pages, seen |-> Cardinality(seen)]
       /\ mainpc' = "done" => job'.stats_json # NoStats
       /\ mainpc = "done" => job' = job
      ]_vars

\* The stats are written after a run in which the loop had to wait for
\* tasks that were unfinished when it ended.
C11_Witness ==
    /\ mainpc = "done"
    /\ job.stats_json = [pages |-> pages, seen |-> Cardinality(seen)]
    /\ pages >= 1
    /\ q # <<>>
    /\ Len(tasks) >= 2

\* The compiled rules put every URL out of scope.
DeniesAll == \A u \in URLs : \E d \in Range(spec.rules.deny) : u \in d

\* C12: with a deny rule that matches every URL no PageResult is persisted,
\* no URL (seeds included) is fetched or marked seen, and crawl_job still
\* ends by persisting stats with pages = 0.
C12_DenyAllFetchesNothing ==
    DeniesAll =>
        /\ results = <<>>
        /\ seen = {}
        /\ \A u \in URLs : fetchCount[u] = 0
        /\ \A t \in TaskIds : tasks[t].pc \in {"created", "done"} /\ tasks[t].slot = "none"
        /\ mainpc \in {"updating", "done"} => stats = [pages |-> 0, seen |-> 0]
        /\ mainpc = "done" => job.stats_json = [pages |-> 0, seen |-> 0]

\* The seed of a deny-all job was dispatched and rejected, and the job ended.
C12_Witness ==
    /\ DeniesAll
    /\ mainpc = "done"
    /\ ~cancel_flag
    /\ Len(tasks) = Len(spec.seeds)
    /\ \A t \in TaskIds : tasks[t].pc = "done"

\* C13: with respectRobots, a call of RobotsCache.allowed whose robots.txt
\* request fails answers true, so its URL goes on to the delay and the
\* fetch; and a job all of whose robots.txt requests failed and none of
\* whose fetches failed ends with pages > 0.
C13_RobotsFailureAllows ==
    [][/\ \A t \in TaskIds :
            (tasks[t].pc = "robots" /\ tasks'[t].pc # "robots"
                /\ robotsCache'[netloc(tasks[t].url)] = "allowall")
               => /\ tasks'[t].pc = IF spec.delayMs # 0 THEN "sleeping" ELSE "fetching"
                  /\ tasks'[t].slot = "held"
       /\ (/\ spec.respectRobots
           /\ mainpc' = "done"
           /\ \E h \in Hosts : robotsReq'[h] > 0
           /\ \A h \in Hosts : robotsCache'[h] # "site"
           /\ \A i \in 1..Len(results') : results'[i].status_code = 200)
              => job'.stats_json.pages > 0
      ]_vars

\* The robots.txt request of a host failed, a disallowed URL of that host
\* was fetched all the same, and the job ended with pages > 0.
C13_Witness ==
    /\ spec.respectRobots
    /\ mainpc = "done"
    /\ robotsCache["a.test"] = "allowall"
    /\ \E u \in RobotsDisallowed : fetchCount[u] = 1
    /\ \A h \in Hosts : robotsCache[h] # "site"
    /\ \A i \in 1..Len(results) : results[i].status_code = 200
    /\ job.stats_json.pages > 0

\* C14 (as claimed): robots.txt is requested at most once per host within
\* one job, also when several admitted tasks call RobotsCache.allowed for
\* the same host before the first request has returned.
C14_Claim == \A h \in Hosts : robotsReq[h] <= 1

\* C15: with maxDepth set no persisted row, success or failure, is deeper
\* than maxDepth; a deeper entry may be queued and dispatched, but its task
\* is rejected before it marks the URL seen, takes a slot or fetches.
RowsWithinDepth ==
    \A d \in spec.maxDepth :
        /\ \A i \in 1..Len(results) : results[i].depth <= d
        /\ \A t \in TaskIds :
              tasks[t].depth > d
                 => /\ tasks[t].pc \in {"created", "done"}
                    /\ tasks[t].slot = "none"

C15_DepthBounded ==
    [][/\ RowsWithinDepth'
       /\ \A d \in spec.maxDepth : \A t \in TaskIds :
             (tasks[t].depth > d /\ tasks'[t] # tasks[t])
                => seen' = seen /\ fetchCount' = fetchCount
      ]_vars

\* An entry deeper than maxDepth was queued, dispatched and rejected, and
\* its URL was neither marked seen nor fetched, while its parent has a row.
C15_Witness ==
    \E d \in spec.maxDepth : \E t \in TaskIds :
        /\ tasks[t].depth > d
        /\ tasks[t].pc = "done"
        /\ tasks[t].url \notin seen
        /\ fetchCount[tasks[t].url] = 0
        /\ \E i \in 1..Len(results) : results[i].depth = d

\* An entry is a seed at depth 0, or a link of a page that has a success
\* row, one level below that page.
SeedOrChild(e) ==
    \/ e.depth = 0 /\ e.url \in Range(spec.seeds)
    \/ \E i \in 1..Len(results) :
          /\ results[i].status_code = 200
          /\ e.url \in Range(results[i].links)
          /\ e.depth = results[i].depth + 1

\* C16: every entry of the frontier queue is a seed at depth 0 or a link
\* appended by the successful fetch of a page at depth d, with depth d + 1.
C16_QueueDepths == \A i \in 1..Len(q) : SeedOrChild(q[i])

\* The queue holds a link two levels below a seed.
C16_Witness == \E i \in 1..Len(q) : q[i].depth = 2

\* C17: the seen set is always at least as large as the page counter, and
\* the stats written at the end satisfy seen >= pages.
C17_SeenAtLeastPages ==
    /\ Cardinality(seen) >= pages
    /\ stats # NoStats => stats.seen >= stats.pages
    /\ job.stats_json # NoStats => job.stats_json.seen >= job.stats_json.pages

\* Stats were written for a job with fetched pages and a seen URL that did
\* not become a page.
C17_Witness ==
    /\ mainpc = "done"
    /\ job.stats_json.pages >= 2
    /\ job.stats_json.seen > job.stats_json.pages

\* How often a URL was appended to the frontier so far: the entries already
\* dispatched plus the entries still queued.
TimesQueued(u) ==
    Cardinality({t \in TaskIds : tasks[t].url = u})
       + Cardinality({i \in 1..Len(q) : q[i].url = u})

\* C18 (as claimed): a URL is appended to the frontier queue at most once
\* per job.
C18_Claim == \A u \in URLs : TimesQueued(u) <= 1

\* C19 (as claimed): entries leave the frontier in non-decreasing depth
\* order, whatever the concurrency and the order in which fetches complete.
C19_Claim ==
    \A t1, t2 \in TaskIds : t1 < t2 => tasks[t1].depth <= tasks[t2].depth

(***************************************************************************)
(* in_scope on its own: the arguments are drawn, then the function is      *)
(* called once.  crawl_job does not run in this specification.             *)
(***************************************************************************)
Patterns == {MatchAll, MatchX, MatchA, MatchNothing}

PatternLists == UNION {[1..n -> Patterns] : n \in 0..MaxRules}

\* crawl_job has not been started.
NoCrawlJob ==
    /\ spec = BaseSpec
    /\ mainpc = "setup"
    /\ q = <<>>
    /\ seen = {}
    /\ pages = 0
    /\ sem = 0
    /\ waiters = <<>>
    /\ tasks = <<>>
    /\ robotsCache = [h \in Hosts |-> "none"]
    /\ results = <<>>
    /\ job = [status |-> "queued", stats_json |-> NoStats]
    /\ stats = NoStats
    /\ cancel_flag = FALSE
    /\ expired = FALSE
    /\ fetchCount = [u \in URLs |-> 0]
    /\ robotsReq = [h \in Hosts |-> 0]

InitScope ==
    /\ scope_call \in [url : URLs, allow : PatternLists, deny : PatternLists,
                       out : {"pending"}]
    /\ map_call = NoCall
    /\ crawl_call = NoCall
    /\ stream_call = NoCall
    /\ NoCrawlJob

\* in_scope(url, allow, deny) is called and returns.
ScopeCall ==
    /\ scope_call.out = "pending"
    /\ scope_call' = [scope_call EXCEPT !.out =
                         IF in_scope(scope_call.url, scope_call.allow, scope_call.deny)
                         THEN "true" ELSE "false"]
    /\ UNCHANGED <<map_call, crawl_call, stream_call, crawl_vars>>

NextScope == ScopeCall

SpecScope == InitScope /\ [][NextScope]_vars

DenyMatches == \E i \in 1..Len(scope_call.deny) : scope_call.url \in scope_call.deny[i]

AllowMatches == \E i \in 1..Len(scope_call.allow) : scope_call.url \in scope_call.allow[i]

\* C20: in_scope returns false if any deny pattern matches; otherwise true
\* if the allow list is empty; otherwise true exactly when some allow
\* pattern matches.  A URL matched by a deny and an allow pattern is out of
\* scope.
C20_InScope ==
    scope_call.out \in {"true", "false"} =>
        /\ DenyMatches => scope_call.out = "false"
        /\ (~DenyMatches /\ Len(scope_call.allow) = 0) => scope_call.out = "true"
        /\ (~DenyMatches /\ Len(scope_call.allow) > 0)
              => (scope_call.out = "true" <=> AllowMatches)
        /\ (DenyMatches /\ AllowMatches) => scope_call.out = "false"

\* in_scope has answered false for a URL that a deny pattern and an allow
\* pattern both match.
C20_Witness ==
    /\ scope_call.out = "false"
    /\ DenyMatches
    /\ AllowMatches

\* C21: every URL that enters q or seen, seeds included, is absolute with its
\* fragment stripped, so two URLs that differ only in their fragment are
\* never both fetched in one job.
C21_Claim ==
    /\ \A i \in 1..Len(q) : urldefrag(q[i].url) = q[i].url
    /\ \A u \in seen : urldefrag(u) = u
    /\ \A u, v \in URLs :
         (u # v /\ urldefrag(u) = urldefrag(v)) => ~(fetchCount[u] > 0 /\ fetchCount[v] > 0)

\* C26: the live constraints are checked again once a task holds a slot: a
\* task that resumes with the slot it waited for while cancel_flag is set, or
\* while pages has reached maxPages, ends without a robots request, a delay
\* or a fetch.
C26_Claim ==
    [][\A t \in TaskIds :
          (tasks[t].pc = "acquired"
             /\ (cancel_flag \/ \E p \in spec.maxPages : pages >= p))
          => (tasks'[t].pc \in {"acquired", "done"}
                /\ fetchCount'[tasks[t].url] = fetchCount[tasks[t].url])]_vars

\* C27: the dispatch loop creates no task while 2 * N or more created tasks
\* are unfinished.
C27_Claim ==
    [][Len(tasks') > Len(tasks) => Cardinality(Unfinished) < 2 * concurrency]_vars

RulesAccept(u) ==
    /\ \A i \in 1..Len(spec.rules.deny) : u \notin spec.rules.deny[i]
    /\ (Len(spec.rules.allow) > 0 => \E i \in 1..Len(spec.rules.allow) : u \in spec.rules.allow[i])

\* C28: every URL with a row in results is accepted by the rules (no deny
\* pattern matches; an allow pattern matches when there are allow patterns)
\* and, when sameDomainOnly is set, has the host of one of the seeds; seeds
\* and links alike.
C28_ResultsInScope ==
    \A i \in 1..Len(results) :
        /\ RulesAccept(results[i].url)
        /\ (spec.sameDomainOnly =>
               \E s \in 1..Len(spec.seeds) : netloc(spec.seeds[s]) = netloc(results[i].url))

\* A link has a row, and a link to another host was rejected without one.
C28_Witness ==
    /\ spec.sameDomainOnly
    /\ \E i \in 1..Len(results) : results[i].depth > 0
    /\ \E t \in TaskIds :
         /\ tasks[t].pc = "done"
         /\ tasks[t].depth > 0
         /\ netloc(tasks[t].url) = "b.test"
         /\ \A i \in 1..Len(results) : results[i].url # tasks[t].url

RowsOf(u) == {i \in 1..Len(results) : results[i].url = u}

Persisting(u) ==
    \E t \in TaskIds :
        tasks[t].url = u /\ tasks[t].pc \in {"fetching", "insert_ok", "insert_fail"}

\* C29: every call of crawler.arun leads to exactly one row in results, a
\* success row or a failure row: a URL never has more rows than fetches, and
\* has as many once no task is between its fetch and its insert.
C29_OneRowPerFetch ==
    \A u \in URLs :
        /\ Cardinality(RowsOf(u)) <= fetchCount[u]
        /\ (~Persisting(u) => Cardinality(RowsOf(u)) = fetchCount[u])

\* Two fetched URLs have their rows in the opposite order of their dispatch,
\* one a success row and one a failure row.
C29_Witness ==
    \E t1, t2 \in TaskIds, i, j \in 1..Len(results) :
        /\ t1 < t2 /\ j < i
        /\ results[i].url = tasks[t1].url
        /\ results[j].url = tasks[t2].url
        /\ fetchCount[tasks[t1].url] = 1 /\ fetchCount[tasks[t2].url] = 1
        /\ results[i].error # results[j].error
        /\ Unfinished = {}

SuccessRows == Cardinality({i \in 1..Len(results) : results[i].error = "null"})

\* C30: pages counts success rows only: after every step that leaves no task
\* between its success row and pages += 1, pages is the number of success
\* rows; pages never decreases; the stats written to the job's row hold the
\* number of success rows and the size of seen.
C30_PagesCountSuccesses ==
    [][/\ ((\A t \in 1..Len(tasks') : tasks'[t].pc # "stored_ok")
            => pages' = SuccessRows')
       /\ pages' >= pages
       /\ (mainpc' = "done"
            => job'.stats_json = [pages |-> SuccessRows', seen |-> Cardinality(seen')])]_vars

\* The job is over with a success row and a failure row, and one page counted.
C30_Witness ==
    /\ mainpc = "done"
    /\ \E i, j \in 1..Len(results) : results[i].error = "null" /\ results[j].error = "error"
    /\ pages = SuccessRows
    /\ job.stats_json.pages = pages

(***************************************************************************)
(* mode_map (features/map/service.py, and the copy in main.py that differs *)
(* in the test a link must pass to be queued).  One request is drawn and   *)
(* served; crawl_job does not run in this specification.                   *)
(***************************************************************************)
MaxMapPages == 3
MaxMapDepth == 2

RECURSIVE Unique(_)
Unique(links) ==
    IF links = <<>> THEN <<>>
    ELSE LET rest == Unique(SelectSeq(Tail(links), LAMBDA l : l # Head(links)))
         IN  <<Head(links)>> \o rest

\* scraper.extract_links: the anchors of the page, without duplicates; the
\* copy in main.py leaves out mailto: and javascript: anchors.
scraper_extract_links(impl, u) ==
    IF impl = "main"
    THEN Unique(SelectSeq(hrefs(u), LAMBDA l : l \notin SkippedHrefs))
    ELSE Unique(hrefs(u))

\* Faulty variant: the host test is applied only when same_domain is set.
MapQueuesByFlag(m, link) ==
    /\ m.req.same_domain => netloc(link) = netloc(m.req.url)
    /\ link \notin m.visited

\* The test a link passes to be appended to queue.
MapQueues(m, link) ==
    IF m.impl = "main"
    THEN /\ netloc(link) = netloc(m.current.url)
         /\ link \notin m.visited
         /\ m.req.same_domain
         /\ netloc(link) = netloc(m.req.url)
    ELSE /\ netloc(link) = netloc(m.req.url)
         /\ link \notin m.visited

RECURSIVE MapEnqueue(_, _, _)
MapEnqueue(m, queue, links) ==
    IF links = <<>> THEN queue
    ELSE MapEnqueue(m,
                    IF MapQueues(m, Head(links))
                    THEN Append(queue, [url |-> Head(links), depth |-> m.current.depth + 1])
                    ELSE queue,
                    Tail(links))

MapRequests ==
    [url : {"https://a.test/", "https://b.test/y"}, max_pages : -1..MaxMapPages,
     max_depth : 0..MaxMapDepth, same_domain : BOOLEAN]

NoMapResponse == [pages_discovered |-> -1, site_map |-> <<>>]

InitMap ==
    /\ \E req \in MapRequests, impl \in {"features", "main"} :
          map_call = [req |-> req, impl |-> impl, pc |-> "loop", visited |-> {},
                      site_map |-> <<>>, queue |-> <<[url |-> req.url, depth |-> 0]>>,
                      current |-> [url |-> req.url, depth |-> 0], fetches |-> 0,
                      response |-> NoMapResponse]
    /\ scope_call = NoScopeCall
    /\ crawl_call = NoCall
    /\ stream_call = NoCall
    /\ NoCrawlJob

\* Faulty variant: the loop goes on while visited holds max_pages URLs.
MapContinuesInclusive(m) ==
    m.queue # <<>> /\ Cardinality(m.visited) <= m.req.max_pages

\* while queue and len(visited) < req.max_pages
MapContinues(m) ==
    m.queue # <<>> /\ Cardinality(m.visited) < m.req.max_pages

\* One iteration up to the fetch: pop(0), the visited and depth test,
\* visited.add, fetch_simple is called.
MapPop ==
    /\ map_call.pc = "loop"
    /\ MapContinues(map_call)
    /\ LET cur == Head(map_call.queue) IN
         map_call' =
            IF cur.url \in map_call.visited \/ cur.depth > map_call.req.max_depth
            THEN [map_call EXCEPT !.queue = Tail(@)]
            ELSE [map_call EXCEPT !.queue = Tail(@), !.current = cur,
                                  !.visited = @ \cup {cur.url},
                                  !.fetches = @ + 1, !.pc = "fetching"]
    /\ UNCHANGED <<scope_call, crawl_call, stream_call, crawl_vars>>

\* fetch_simple reports a failure: an error entry, no links.
MapFetchFails ==
    /\ map_call.pc = "fetching"
    /\ map_call' = [map_call EXCEPT
                       !.site_map = Append(@, [url |-> map_call.current.url,
                                               depth |-> map_call.current.depth,
                                               entry |-> "fetch_error", links_count |-> 0]),
                       !.pc = "loop"]
    /\ UNCHANGED <<scope_call, crawl_call, stream_call, crawl_vars>>

\* fetch_simple returns a page: its entry is appended, its links are queued.
MapFetchSucceeds ==
    /\ map_call.pc = "fetching"
    /\ LET links == scraper_extract_links(map_call.impl, map_call.current.url) IN
         map_call' = [map_call EXCEPT
                        !.site_map = Append(@, [url |-> map_call.current.url,
                                                depth |-> map_call.current.depth,
                                                entry |-> "page", links_count |-> Len(links)]),
                        !.queue = MapEnqueue(map_call, @, links),
                        !.pc = "loop"]
    /\ UNCHANGED <<scope_call, crawl_call, stream_call, crawl_vars>>

\* Something in the try block raises: the except block appends an entry.
MapRaises ==
    /\ map_call.pc = "fetching"
    /\ map_call' = [map_call EXCEPT
                       !.site_map = Append(@, [url |-> map_call.current.url,
                                               depth |-> map_call.current.depth,
                                               entry |-> "exception", links_count |-> 0]),
                       !.pc = "loop"]
    /\ UNCHANGED <<scope_call, crawl_call, stream_call, crawl_vars>>

\* The loop ends and the response is returned.
MapReturn ==
    /\ map_call.pc = "loop"
    /\ ~MapContinues(map_call)
    /\ map_call' = [map_call EXCEPT
                       !.response = [pages_discovered |-> Cardinality(map_call.visited),
                                     site_map |-> map_call.site_map],
                       !.pc = "returned"]
    /\ UNCHANGED <<scope_call, crawl_call, stream_call, crawl_vars>>

NextMap ==
    \/ MapPop
    \/ MapFetchFails
    \/ MapFetchSucceeds
    \/ MapRaises
    \/ MapReturn

SpecMap == InitMap /\ [][NextMap]_vars

MapLimit == IF map_call.req.max_pages > 0 THEN map_call.req.max_pages ELSE 0

\* C22: mode_map respects its page limit: in every state visited holds at
\* most max_pages URLs (none when max_pages <= 0), at most max_pages fetches
\* are made, and the response's pages_discovered is at most max_pages (zero
\* when max_pages <= 0).
C22_MapPageLimit ==
    /\ Cardinality(map_call.visited) <= MapLimit
    /\ map_call.fetches <= MapLimit
    /\ map_call.pc = "returned" =>
          /\ map_call.response.pages_discovered <= MapLimit
          /\ map_call.response.pages_discovered = Cardinality(map_call.visited)

\* The response reports max_pages pages while links were still queued.
C22_Witness ==
    /\ map_call.pc = "returned"
    /\ map_call.req.max_pages > 1
    /\ map_call.response.pages_discovered = map_call.req.max_pages
    /\ map_call.fetches = map_call.req.max_pages
    /\ map_call.queue # <<>>

(***************************************************************************)
(* mode_crawl (features/crawl/service.py; services/crawl.py and main.py    *)
(* hold the same coroutine).  One request is drawn and served: gather      *)
(* wraps every crawl_one coroutine in a task, the tasks take their first   *)
(* step in the order of the URLs, and every fetch returns at its own time. *)
(***************************************************************************)
MaxUrls == 3
MaxBatch == 2

CrawlRequests ==
    [urls : UNION {[1..n -> {"https://a.test/", "https://b.test/y"}] : n \in 0..MaxUrls},
     batch_size : -1..MaxBatch]

NoCrawlResponse == [total_urls |-> -1, successful |-> -1, failed |-> -1, results |-> <<>>]

NoResult == [url |-> "", success |-> FALSE, error |-> "none"]

InitCrawl ==
    /\ \E req \in CrawlRequests :
          crawl_call = [req |-> req, pc |-> "start", semaphore |-> 0, waiters |-> <<>>,
                        co |-> <<>>, order |-> <<>>, response |-> NoCrawlResponse]
    /\ scope_call = NoScopeCall
    /\ map_call = NoCall
    /\ stream_call = NoCall
    /\ NoCrawlJob

\* Faulty variant: entering the semaphore never waits.
semaphore_enter_nowait(c, i) ==
    [c EXCEPT !.co[i].pc = "fetching"]

\* async with semaphore: the entry.  A free slot is taken without waiting
\* and the fetch is called; otherwise the coroutine queues up.
semaphore_enter(c, i) ==
    IF c.semaphore > 0 /\ c.waiters = <<>>
    THEN [c EXCEPT !.semaphore = @ - 1, !.co[i].pc = "fetching"]
    ELSE [c EXCEPT !.waiters = Append(@, i), !.co[i].pc = "waiting"]

\* async with semaphore: the exit.  The slot goes to the longest waiting
\* coroutine if there is one.
semaphore_exit(c) ==
    IF c.waiters = <<>>
    THEN [c EXCEPT !.semaphore = @ + 1]
    ELSE [c EXCEPT !.waiters = Tail(@), !.co[Head(c.waiters)].pc = "acquired"]

\* What crawl_one returns for each way its fetch can end: a page, a fetch
\* that reports failure, an exception caught by the except clause.
CrawlOneResult(url, outcome) ==
    CASE outcome = "page"   -> [url |-> url, success |-> TRUE, error |-> "null"]
      [] outcome = "failed" -> [url |-> url, success |-> FALSE, error |-> "fetch error"]
      [] OTHER              -> [url |-> url, success |-> FALSE, error |-> "exception"]

\* Faulty variant: the results in the order in which the fetches completed.
GatherAsCompleted(c) ==
    [k \in 1..Len(c.order) |-> c.co[c.order[k]].result]

\* asyncio.gather: the results in the order of its arguments.
Gather(c) ==
    [i \in 1..Len(c.co) |-> c.co[i].result]

\* Semaphore(batch_size) raises ValueError for a negative value; otherwise
\* one coroutine per URL is created and handed to gather.
ModeCrawlBegins ==
    /\ crawl_call.pc = "start"
    /\ crawl_call' =
          IF crawl_call.req.batch_size < 0
          THEN [crawl_call EXCEPT !.pc = "raised"]
          ELSE [crawl_call EXCEPT
                  !.pc = "gather",
                  !.semaphore = crawl_call.req.batch_size,
                  !.co = [i \in 1..Len(crawl_call.req.urls) |->
                             [url |-> crawl_call.req.urls[i], pc |-> "created",
                              outcome |-> "none", result |-> NoResult]]]
    /\ UNCHANGED <<scope_call, map_call, stream_call, crawl_vars>>

\* First step of a crawl_one task.
CrawlOneStarts(i) ==
    /\ crawl_call.pc = "gather"
    /\ crawl_call.co[i].pc = "created"
    /\ \A j \in 1..(i - 1) : crawl_call.co[j].pc # "created"
    /\ crawl_call' = semaphore_enter(crawl_call, i)
    /\ UNCHANGED <<scope_call, map_call, stream_call, crawl_vars>>

\* A coroutine that waited for the semaphore resumes and calls the fetch.
CrawlOneResumes(i) ==
    /\ crawl_call.pc = "gather"
    /\ crawl_call.co[i].pc = "acquired"
    /\ crawl_call' = [crawl_call EXCEPT !.co[i].pc = "fetching"]
    /\ UNCHANGED <<scope_call, map_call, stream_call, crawl_vars>>

\* The fetch ends, crawl_one builds its result, leaves the semaphore and
\* returns.
CrawlOneReturns(i, outcome) ==
    /\ crawl_call.pc = "gather"
    /\ crawl_call.co[i].pc = "fetching"
    /\ crawl_call' =
          semaphore_exit([crawl_call EXCEPT
                            !.co[i].pc = "done",
                            !.co[i].outcome = outcome,
                            !.co[i].result = CrawlOneResult(crawl_call.co[i].url, outcome),
                            !.order = Append(@, i)])
    /\ UNCHANGED <<scope_call, map_call, stream_call, crawl_vars>>

\* gather returns once every task is done; the response is built.
ModeCrawlReturns ==
    /\ crawl_call.pc = "gather"
    /\ \A i \in 1..Len(crawl_call.co) : crawl_call.co[i].pc = "done"
    /\ LET results_ == Gather(crawl_call)
           successful == Cardinality({i \in 1..Len(results_) : results_[i].success})
       IN  crawl_call' = [crawl_call EXCEPT
                            !.pc = "returned",
                            !.response = [total_urls |-> Len(crawl_call.req.urls),
                                          successful |-> successful,
                                          failed |-> Len(crawl_call.req.urls) - successful,
                                          results |-> results_]]
    /\ UNCHANGED <<scope_call, map_call, stream_call, crawl_vars>>

NextCrawl ==
    \/ ModeCrawlBegins
    \/ \E i \in 1..Len(crawl_call.co) : CrawlOneStarts(i)
    \/ \E i \in 1..Len(crawl_call.co) : CrawlOneResumes(i)
    \/ \E i \in 1..Len(crawl_call.co), outcome \in {"page", "failed", "raised"} :
          CrawlOneReturns(i, outcome)
    \/ ModeCrawlReturns

SpecCrawl == InitCrawl /\ [][NextCrawl]_vars

\* The event loop runs every coroutine that is ready and every fetch ends.
FairnessCrawl ==
    /\ WF_vars(ModeCrawlBegins)
    /\ WF_vars(\E i \in 1..Len(crawl_call.co) : CrawlOneStarts(i))
    /\ WF_vars(\E i \in 1..Len(crawl_call.co) : CrawlOneResumes(i))
    /\ WF_vars(\E i \in 1..Len(crawl_call.co), outcome \in {"page", "failed", "raised"} :
                  CrawlOneReturns(i, outcome))
    /\ WF_vars(ModeCrawlReturns)

SpecCrawlFair == SpecCrawl /\ FairnessCrawl

InsideFetch == {i \in 1..Len(crawl_call.co) : crawl_call.co[i].pc = "fetching"}

\* C23: at any moment at most batch_size crawl_one coroutines are inside
\* the fetch (none when Semaphore(batch_size) raised or batch_size is 0),
\* for every list of URLs and every completion order.
C23_BatchBounded ==
    Cardinality(InsideFetch)
        <= IF crawl_call.req.batch_size > 0 THEN crawl_call.req.batch_size ELSE 0

\* batch_size fetches are in flight and a further coroutine waits for the
\* semaphore.
C23_Witness ==
    /\ crawl_call.req.batch_size > 1
    /\ Cardinality(InsideFetch) = crawl_call.req.batch_size
    /\ crawl_call.waiters # <<>>

\* C24: the response of mode_crawl holds exactly one result per input URL,
\* in input order whatever the completion order; the entry of a URL whose
\* fetch failed or raised has success false and an error; total_urls is
\* the number of URLs and equals successful + failed.
C24_ConsolidatedResults ==
    crawl_call.pc = "returned" =>
        LET res == crawl_call.response.results
            urls == crawl_call.req.urls
        IN  /\ Len(res) = Len(urls)
            /\ \A i \in 1..Len(urls) :
                 /\ res[i].url = urls[i]
                 /\ res[i].success = (crawl_call.co[i].outcome = "page")
                 /\ (~res[i].success => res[i].error \notin {"null", "none"})
            /\ crawl_call.response.total_urls = Len(urls)
            /\ crawl_call.response.successful
                  = Cardinality({i \in 1..Len(res) : res[i].success})
            /\ crawl_call.response.total_urls
                  = crawl_call.response.successful + crawl_call.response.failed

\* A response for three URLs whose fetches completed in another order than
\* the input's, with a page, a failed fetch and an exception among them.
C24_Witness ==
    /\ crawl_call.pc = "returned"
    /\ Len(crawl_call.req.urls) = 3
    /\ crawl_call.order[1] # 1
    /\ {crawl_call.co[i].outcome : i \in 1..3} = {"page", "failed", "raised"}
    /\ crawl_call.response.successful = 1
    /\ crawl_call.response.failed = 2

(***************************************************************************)
(* mode_crawl_stream (features/crawl/service.py; same generator in         *)
(* services/crawl.py and main.py).  The consumer of the response drives    *)
(* the async generator: every step below runs to the next suspension of    *)
(* the generator, at a fetch, at the semaphore or at a yield.              *)
(***************************************************************************)
InitStream ==
    /\ \E req \in CrawlRequests :
          stream_call = [req |-> req, pc |-> "start", semaphore |-> 0, idx |-> 0,
                         lines |-> <<>>, begun |-> <<>>]
    /\ scope_call = NoScopeCall
    /\ map_call = NoCall
    /\ crawl_call = NoCall
    /\ NoCrawlJob

\* The for loop takes the next URL, or ends the generator; crawl_one enters
\* the semaphore and calls the fetch, or waits for a slot.  begun records,
\* for every fetch that starts, how many lines had been emitted.
StreamAdvance(s) ==
    IF s.idx = Len(s.req.urls) THEN [s EXCEPT !.pc = "ended"]
    ELSE IF s.semaphore > 0
         THEN [s EXCEPT !.idx = @ + 1, !.semaphore = @ - 1, !.pc = "fetching",
                        !.begun = Append(@, Len(s.lines))]
         ELSE [s EXCEPT !.idx = @ + 1, !.pc = "blocked"]

\* The generator is started: Semaphore(batch_size), which raises ValueError
\* for a negative value, then the first iteration of the loop.
StreamBegins ==
    /\ stream_call.pc = "start"
    /\ stream_call' =
          IF stream_call.req.batch_size < 0
          THEN [stream_call EXCEPT !.pc = "raised"]
          ELSE StreamAdvance([stream_call EXCEPT !.semaphore = stream_call.req.batch_size])
    /\ UNCHANGED <<scope_call, map_call, crawl_call, crawl_vars>>

\* The fetch ends: crawl_one leaves the semaphore and returns its result,
\* and the generator yields the line.
StreamYields(outcome) ==
    /\ stream_call.pc = "fetching"
    /\ stream_call' =
          [stream_call EXCEPT
              !.semaphore = @ + 1,
              !.lines = Append(@, CrawlOneResult(stream_call.req.urls[stream_call.idx],
                                                 outcome)),
              !.pc = "yielded"]
    /\ UNCHANGED <<scope_call, map_call, crawl_call, crawl_vars>>

\* The consumer asks for the next line: the generator resumes after yield.
StreamResumes ==
    /\ stream_call.pc = "yielded"
    /\ stream_call' = StreamAdvance(stream_call)
    /\ UNCHANGED <<scope_call, map_call, crawl_call, crawl_vars>>

NextStream ==
    \/ StreamBegins
    \/ \E outcome \in {"page", "failed", "raised"} : StreamYields(outcome)
    \/ StreamResumes

SpecStream == InitStream /\ [][NextStream]_vars

\* The lines emitted so far are those of the first URLs, in input order, and
\* every fetch began after the line of the URL before it was emitted.
StreamSequential ==
    /\ Len(stream_call.lines) <= Len(stream_call.req.urls)
    /\ \A k \in 1..Len(stream_call.lines) :
         stream_call.lines[k].url = stream_call.req.urls[k]
    /\ \A k \in 1..Len(stream_call.begun) : stream_call.begun[k] = k - 1

\* C25 (as claimed): whatever batch_size is, mode_crawl_stream emits exactly
\* one line per input URL, in input order, each before the fetch of the next
\* URL begins: the lines are emitted in sequence, and a generator that has
\* ended, raised, or waits for a slot nobody holds has emitted them all.
C25_Claim ==
    /\ StreamSequential
    /\ stream_call.pc \in {"ended", "raised", "blocked"}
          => Len(stream_call.lines) = Len(stream_call.req.urls)

\* Task t, admitted, gets past the robots check in this step, and the policy
\* cached for its host is the site's robots.txt, which disallows its URL.
RobotsDenies(t) ==
    /\ spec.respectRobots
    /\ tasks[t].pc \in {"created", "acquired", "robots"}
    /\ tasks'[t].pc \in {"sleeping", "fetching", "done"}
    /\ tasks[t].pc = "created" => (tasks[t].url \notin seen /\ tasks[t].url \in seen')
    /\ robotsCache'[netloc(tasks[t].url)] = "site"
    /\ tasks[t].url \in RobotsDisallowed

\* C32: when respectRobots is set and the host's robots policy disallows an
\* admitted URL, the task ends in that step without a fetch, without a row
\* in results, with pages and q unchanged, with its slot released and with
\* the URL in seen; and a URL whose task ended that way is never fetched.
C32_RobotsDenialFrame ==
    [][/\ \A t \in TaskIds :
            RobotsDenies(t) =>
                /\ tasks'[t].pc = "done"
                /\ tasks'[t].slot = "released"
                /\ fetchCount' = fetchCount
                /\ results' = results
                /\ pages' = pages
                /\ q' = q
                /\ tasks[t].url \in seen'
       /\ \A t \in TaskIds :
            (tasks[t].pc = "done" /\ tasks[t].slot = "released"
               /\ fetchCount[tasks[t].url] = 0)
            => (fetchCount'[tasks[t].url] = 0 /\ tasks[t].url \in seen')]_vars

\* A URL was denied by robots.txt, a second task for it was rejected before
\* acquiring a slot, and the job ended without a fetch or a row for it.
C32_Witness ==
    /\ spec.respectRobots
    /\ mainpc = "done"
    /\ \E t1, t2 \in TaskIds :
         /\ t1 < t2
         /\ tasks[t1].url = "https://a.test/z" /\ tasks[t2].url = "https://a.test/z"
         /\ tasks[t1].slot = "released"
         /\ tasks[t2].slot = "none"
    /\ robotsCache["a.test"] = "site"
    /\ fetchCount["https://a.test/z"] = 0
    /\ "https://a.test/z" \in seen
    /\ \A i \in 1..Len(results) : results[i].url # "https://a.test/z"

\* C33: mode_map queues and fetches only URLs whose host is the host of the
\* root URL, whether the request's same_domain flag is true or false.
C33_MapSameHost ==
    /\ \A u \in map_call.visited : netloc(u) = netloc(map_call.req.url)
    /\ \A i \in 1..Len(map_call.queue) :
         netloc(map_call.queue[i].url) = netloc(map_call.req.url)
    /\ \A i \in 1..Len(map_call.site_map) :
         netloc(map_call.site_map[i].url) = netloc(map_call.req.url)

\* With same_domain false, a page that links to another host was mapped,
\* further pages were visited, and the other host's URL was not.
C33_Witness ==
    /\ map_call.pc = "returned"
    /\ ~map_call.req.same_domain
    /\ map_call.req.url = "https://a.test/"
    /\ \E i \in 1..Len(map_call.site_map) :
         /\ map_call.site_map[i].url = "https://a.test/"
         /\ map_call.site_map[i].entry = "page"
    /\ Cardinality(map_call.visited) > 1
    /\ "https://b.test/y" \notin map_call.visited

\* C31: with collaborators that return, every run of crawl_job ends, with or
\* without limits and whether or not cancel_flag is set: a run whose crawler
\* could be entered reaches the state in which update_job has written the
\* stats, and a run whose crawler could not be entered ends with that
\* exception.
C31_Terminates ==
    /\ <>(mainpc \in {"done", "raised"})
    /\ (mainpc = "loop") ~> (mainpc = "done")

\* A job without limits and without cancellation, for which more tasks than
\* slots were created, has ended with its stats written.
C31_Witness ==
    /\ mainpc = "done"
    /\ ~cancel_flag
    /\ spec.maxPages = None /\ spec.maxDepth = None /\ spec.maxDuration = None
    /\ job.stats_json = [pages |-> pages, seen |-> Cardinality(seen)]
    /\ pages >= 2
    /\ Len(tasks) > concurrency

\* C34 (as claimed): for every request with batch_size >= 0 and any list of
\* URLs, if every fetch ends then mode_crawl eventually returns its response
\* and no crawl_one coroutine waits for the semaphore forever.
C34_Claim ==
    /\ (crawl_call.req.batch_size >= 0) ~> (crawl_call.pc = "returned")
    /\ (crawl_call.waiters # <<>>) ~> (crawl_call.waiters = <<>>)

====
